---- MODULE Spec2Model ----
(***************************************************************************)
(* Execution orchestration of the SAINT backend: the MCPExecutor scheduler *)
(* (mcpExecutor.js), driven by the POST /api/execute/test route            *)
(* (server.js).                                                            *)
(*                                                                         *)
(* One action is one turn of the Node event loop: the synchronous part of  *)
(* a handler together with every promise continuation (microtask) that it *)
(* makes runnable.  Suspension points are the filesystem calls of          *)
(* createExecutionEnvironment and the events of the npm child process.     *)
(*                                                                         *)
(* Requests are numbered 1, 2, ... in submission order; the number also    *)
(* stands for the uuid executionId of the run.                             *)
(***************************************************************************)
EXTENDS Integers, Sequences, FiniteSets, TLC

\* ------------------------------------------------------------------ bounds
MaxReq == 4            \* submissions explored
MaxCapacity == 2       \* largest config.mcp.maxConcurrentTests explored
MaxExitCode == 1       \* exit codes of the npm process range over 0..MaxExitCode
MaxSessions == 2       \* distinct sessionIds used by callers that reuse them
MaxReuseReq == 3       \* submissions explored when sessionIds are reused
MaxDirs == 2           \* subdirectories of a run's output directory
MaxFiles == 2          \* files a run leaves in its output directory
MaxSuites == 2         \* suites of a structured result document
MaxTests == 3          \* tests of a structured result document
MaxConns == 2          \* WebSocket connections explored
MaxChannels == 2       \* channels explored
MaxRouteReq == 3       \* accepted submissions explored among malformed ones
MaxChunks == 1         \* chunks the runner writes to stdout and stderr, per run
MaxNumber == 1         \* largest timeout, retries and workers of an mcpConfig
MaxSide == 1           \* largest viewport width and height of an mcpConfig

Requests == 1..MaxReq
SessionIds == 1..MaxReq
ExitCodes == 0..MaxExitCode
Sockets == 1..MaxConns
Channels == 1..MaxChannels

VARIABLES
  maxConcurrent,       \* this.maxConcurrent
  activeExecutions,    \* this.activeExecutions: Map sessionId -> executionId
  executionQueue,      \* this.executionQueue: requests in arrival order
  submitted,           \* number of accepted POST /api/execute/test requests
  sessionOf,           \* request -> the sessionId of its body (0: not submitted)
  pc,                  \* request -> position of its run
  promoted,            \* request -> executeTestNow was called by processQueue
  ack,                 \* request -> settlement of the promise executeTest returned
  outcome,             \* request -> settlement of the promise of executeTestNow
  workspace,           \* sessionId -> state of the directory execution-<sessionId>
  events,              \* sessionId -> the messages passed to broadcast, in order
  started,             \* executionIds in the order of their 'execution-started'
  unhandled,           \* runs whose rejection no handler observes
  child,               \* request -> state of its test-runner child process
  result,              \* request -> the result object built by the close handler
  outputDir,           \* sessionId -> files under <storage.results>/<sessionId>
  storage,             \* files of the screenshots, videos and traces directories
  resultFiles,         \* sessionIds whose <sessionId>-result.json is written
  results,             \* TestManager: the records of its results file
  fsFault,             \* request -> the filesystem calls that failed for it
  report,              \* detailedResults.suites of a parsed test-results.json
  summary,             \* the counters of generateExecutionSummary
  readyState,          \* socket -> ws.readyState ("none": no such socket yet)
  handlers,            \* sockets whose 'close'/'error' addConnection listens to
  connections,         \* StreamingService.connections: ids in insertion order
  subscriptions,       \* StreamingService.subscriptions: channel -> ids in order
  connectionSubscriptions, \* id -> connection.subscriptions of its registry entry
  sendOp,              \* the latest broadcast / sendToChannel / sendToConnection
  delivered,           \* the sockets on which that call's ws.send returned
  sendTick,            \* flips with every such call
  lastPost,            \* body and HTTP status of the latest POST /api/execute/test
  reply,               \* request -> status field of the HTTP response to it
  mcpConfig,           \* testData.mcpConfig of a request: the fields it has
  playwrightConfig     \* the values written into playwright.config.ts for it

vars == <<maxConcurrent, activeExecutions, executionQueue, submitted, sessionOf,
          pc, promoted, ack, outcome, workspace, events, started, unhandled,
          child, result, outputDir, storage, resultFiles, results, fsFault,
          report, summary, readyState, handlers, connections, subscriptions,
          connectionSubscriptions, sendOp, delivered, sendTick, lastPost, reply,
          mcpConfig, playwrightConfig>>

\* what the scheduling steps before the runner leave alone
post == <<child, result, outputDir, storage, resultFiles, results, fsFault>>

\* what the executor leaves alone: the summary tally and the streaming service
side == <<report, summary, readyState, handlers, connections, subscriptions,
          connectionSubscriptions, sendOp, delivered, sendTick, mcpConfig,
          playwrightConfig>>
\* what every step but a POST /api/execute/test leaves alone
aside == <<side, lastPost, reply>>
\* the executor, left alone by the tally and by the streaming service
sched == <<maxConcurrent, activeExecutions, executionQueue, submitted, sessionOf,
           pc, promoted, ack, outcome, workspace, events, started, unhandled>>

\* positions of a run
Live == {"ensureDir", "writeFiles", "installing", "running", "processing", "cleaning"}
Ended == {"rejected", "resolved"}

\* ------------------------------------------------------------- messages
NoCode == 0 - 1

Msg(type, sessionId) ==
  [type |-> type, sessionId |-> sessionId, position |-> 0,
   status |-> "", exitCode |-> NoCode, error |-> ""]

\* streamingService.broadcast as the executor and the route call it: the
\* message is handed to the streaming service, once, in call order.
broadcast(ev, m) ==
  [ev EXCEPT ![m.sessionId] = Append(@, m)]

\* ------------------------------------------------------- executor state
\* The part of the state that one event-loop turn of the executor rewrites.
State ==
  [activeExecutions |-> activeExecutions, executionQueue |-> executionQueue,
   pc |-> pc, promoted |-> promoted, ack |-> ack, outcome |-> outcome,
   events |-> events, started |-> started, unhandled |-> unhandled]

Size(st) == Cardinality(DOMAIN st.activeExecutions)

MapSet(m, k, v) == [x \in (DOMAIN m) \cup {k} |-> IF x = k THEN v ELSE m[x]]
MapDelete(m, k) == [x \in (DOMAIN m) \ {k} |-> m[x]]

\* The capacity test of executeTest.
AtCapacityOffByOne(st) == Size(st) > maxConcurrent
AtCapacityEarly(st) == Size(st) + 1 >= maxConcurrent
AtCapacity(st) == Size(st) >= maxConcurrent

\* The queueing branch of executeTest: push, then broadcast 'execution-queued'
\* with position = executionQueue.length.
EnqueueZeroBased(st, r, sessionId) ==
  [st EXCEPT
     !.executionQueue = Append(@, r),
     !.pc = [@ EXCEPT ![r] = "queued"],
     !.events = broadcast(@, [Msg("execution-queued", sessionId) EXCEPT
                                !.position = Len(st.executionQueue)])]
Enqueue(st, r, sessionId) ==
  [st EXCEPT
     !.executionQueue = Append(@, r),
     !.pc = [@ EXCEPT ![r] = "queued"],
     !.events = broadcast(@, [Msg("execution-queued", sessionId) EXCEPT
                                !.position = Len(st.executionQueue) + 1])]

\* executeTestNow up to its first await: the Map entry, the
\* 'execution-started' broadcast, and the call of createExecutionEnvironment,
\* which runs up to `await fs.ensureDir`.
executeTestNow(st, r, sessionId, byQueue) ==
  [st EXCEPT
     !.activeExecutions = MapSet(@, sessionId, r),
     !.events = broadcast(@, Msg("execution-started", sessionId)),
     !.started = Append(@, r),
     !.pc = [@ EXCEPT ![r] = "ensureDir"],
     !.promoted = [@ EXCEPT ![r] = byQueue],
     !.outcome = [@ EXCEPT ![r] = "pending"]]

\* processQueue: promote the head when there is room.  The promise that
\* executeTestNow returns is dropped.
processQueueWhenIdle(st) ==
  IF Len(st.executionQueue) > 0 /\ Size(st) = 0
  THEN LET head == Head(st.executionQueue)
       IN executeTestNow([st EXCEPT !.executionQueue = Tail(@)],
                         head, sessionOf[head], TRUE)
  ELSE st
processQueueNoop(st) == st
processQueueNoShift(st) ==
  IF Len(st.executionQueue) > 0 /\ Size(st) < maxConcurrent
  THEN LET head == Head(st.executionQueue)
       IN executeTestNow(st, head, sessionOf[head], TRUE)
  ELSE st
processQueueLifo(st) ==
  IF Len(st.executionQueue) > 0 /\ Size(st) < maxConcurrent
  THEN LET n == Len(st.executionQueue)
           last == st.executionQueue[n]
       IN executeTestNow([st EXCEPT !.executionQueue = SubSeq(@, 1, n - 1)],
                         last, sessionOf[last], TRUE)
  ELSE st
processQueue(st) ==
  IF Len(st.executionQueue) > 0 /\ Size(st) < maxConcurrent
  THEN LET head == Head(st.executionQueue)
       IN executeTestNow([st EXCEPT !.executionQueue = Tail(@)],
                         head, sessionOf[head], TRUE)
  ELSE st

\* The catch block of executeTestNow, entered with error e by the run of r:
\* delete the Map entry, processQueue, rethrow.
executeTestNowCatchEvictAll(st, r, e) ==
  LET s1 == [st EXCEPT !.activeExecutions = <<>>]
      s2 == processQueue(s1)
  IN [s2 EXCEPT !.pc = [@ EXCEPT ![r] = "rejected"],
                !.outcome = [@ EXCEPT ![r] = e]]
executeTestNowCatchNoPromote(st, r, e) ==
  LET s1 == [st EXCEPT !.activeExecutions = MapDelete(@, sessionOf[r])]
  IN [s1 EXCEPT !.pc = [@ EXCEPT ![r] = "rejected"],
                !.outcome = [@ EXCEPT ![r] = e]]
executeTestNowCatch(st, r, e) ==
  LET s1 == [st EXCEPT !.activeExecutions = MapDelete(@, sessionOf[r])]
      s2 == processQueue(s1)
  IN [s2 EXCEPT !.pc = [@ EXCEPT ![r] = "rejected"],
                !.outcome = [@ EXCEPT ![r] = e]]

\* What becomes of the rethrown error.  A run started by executeTest rejects
\* the promise the route holds, whose .catch broadcasts 'execution-error'.
\* A run started by processQueue has no handler on its promise.
Rethrow(st, r, e) ==
  IF st.promoted[r]
  THEN [st EXCEPT !.unhandled = @ \cup {r}]
  ELSE [st EXCEPT
          !.ack = [@ EXCEPT ![r] = "rejected"],
          !.events = broadcast(@, [Msg("execution-error", sessionOf[r])
                                     EXCEPT !.error = e])]

Reject(st, r, e) == Rethrow(executeTestNowCatch(st, r, e), r, e)

Commit(st) ==
  /\ activeExecutions' = st.activeExecutions
  /\ executionQueue' = st.executionQueue
  /\ pc' = st.pc
  /\ promoted' = st.promoted
  /\ ack' = st.ack
  /\ outcome' = st.outcome
  /\ events' = st.events
  /\ started' = st.started
  /\ unhandled' = st.unhandled

\* ----------------------------------------------------------------- Init
NoResult ==
  [exitCode |-> NoCode, status |-> "", detailedResults |-> FALSE,
   artifacts |-> {}, summary |-> FALSE, processingError |-> ""]

NoFault == [post |-> "none", remove |-> FALSE]

NoSummary == [testCount |-> 0, passedCount |-> 0, failedCount |-> 0, skippedCount |-> 0]
NoSend == [kind |-> "none", channel |-> 0, connectionId |-> 0, throwing |-> {},
           tried |-> {}, raised |-> FALSE]
NoPost == [testData |-> FALSE, sessionId |-> 0, status |-> 0]

\* no document parsed, nothing counted
InitReport ==
  /\ report = <<>>
  /\ summary = NoSummary

\* no configuration generated
NoConfig ==
  [timeout |-> NoCode, retries |-> NoCode, workers |-> NoCode, screenshot |-> "",
   video |-> "", trace |-> "", viewport |-> [width |-> NoCode, height |-> NoCode]]

InitConfig ==
  /\ mcpConfig = <<>>
  /\ playwrightConfig = NoConfig

\* new StreamingService(wss), no socket accepted
InitStream ==
  /\ readyState = [c \in Sockets |-> "none"]
  /\ handlers = {}
  /\ connections = <<>>
  /\ subscriptions = [ch \in Channels |-> <<>>]
  /\ connectionSubscriptions = [c \in Sockets |-> {}]
  /\ sendOp = NoSend
  /\ delivered = {}
  /\ sendTick = FALSE

\* no request received
InitHttp ==
  /\ lastPost = NoPost
  /\ reply = [r \in Requests |-> "none"]

\* new MCPExecutor(config)
InitExecutor ==
  /\ maxConcurrent \in 1..MaxCapacity
  /\ activeExecutions = <<>>
  /\ executionQueue = <<>>
  /\ submitted = 0
  /\ sessionOf = [r \in Requests |-> 0]
  /\ pc = [r \in Requests |-> "unsubmitted"]
  /\ promoted = [r \in Requests |-> FALSE]
  /\ ack = [r \in Requests |-> "none"]
  /\ outcome = [r \in Requests |-> "none"]
  /\ workspace = [s \in SessionIds |-> "absent"]
  /\ events = [s \in SessionIds |-> <<>>]
  /\ started = <<>>
  /\ unhandled = {}
  /\ child = [r \in Requests |-> "none"]
  /\ result = [r \in Requests |-> NoResult]
  /\ outputDir = [s \in SessionIds |-> {}]
  /\ storage = {}
  /\ resultFiles = {}
  /\ results = <<>>
  /\ fsFault = [r \in Requests |-> NoFault]

Init == InitExecutor /\ InitReport /\ InitStream /\ InitHttp /\ InitConfig

\* -------------------------------------------------------------- actions
\* POST /api/execute/test with a body holding testData and sessionId, and
\* the call of executeTest it makes.
executeTest(sessionId) ==
  /\ submitted < MaxReq
  /\ LET r == submitted + 1 IN
     /\ submitted' = r
     /\ sessionOf' = [sessionOf EXCEPT ![r] = sessionId]
     /\ IF AtCapacity(State)
        THEN \* queued; the returned promise is already resolved with
             \* { status: 'queued' }, so the route's .then broadcasts
             \* 'execution-completed' in this turn
             Commit([Enqueue(State, r, sessionId) EXCEPT
               !.ack = [@ EXCEPT ![r] = "queued"],
               !.events = broadcast(@, [Msg("execution-completed", sessionId)
                                          EXCEPT !.status = "queued"])])
        ELSE Commit(executeTestNow(
               [State EXCEPT !.ack = [@ EXCEPT ![r] = "pending"]],
               r, sessionId, FALSE))
     \* res.json({ status: 'started', ... }) whatever executeTest did
     /\ reply' = [reply EXCEPT ![r] = "started"]
  /\ UNCHANGED <<maxConcurrent, workspace>>
  /\ UNCHANGED post
  /\ UNCHANGED side

\* POST /api/execute/test: `if (!testData || !sessionId)` replies 400 and
\* returns; otherwise executeTest is called and the reply is 200.
NoSessionId == 0
RouteRejectsOnlyNoSession(testData, sessionId) == sessionId = NoSessionId
RouteRejects(testData, sessionId) == ~testData \/ sessionId = NoSessionId

postExecuteTest(testData, sessionId) ==
  /\ lastPost' = [testData |-> testData, sessionId |-> sessionId,
                  status |-> IF RouteRejects(testData, sessionId) THEN 400 ELSE 200]
  /\ IF RouteRejects(testData, sessionId)
     THEN UNCHANGED <<sched, post, side, reply>>
     ELSE executeTest(sessionId)

\* createExecutionEnvironment after ensureDir: the four files are written
\* into the directory, each write awaited, before the path is returned.
createExecutionEnvironmentUnawaited(ws, sessionId) == ws
createExecutionEnvironment(ws, sessionId) == [ws EXCEPT ![sessionId] = "ready"]

\* createExecutionEnvironment, first await: fs.ensureDir settles.
ensureDirDone(r, ok) ==
  /\ pc[r] = "ensureDir"
  /\ IF ok
     THEN /\ workspace' = [workspace EXCEPT ![sessionOf[r]] =
                             IF @ = "absent" THEN "dir" ELSE @]
          /\ pc' = [pc EXCEPT ![r] = "writeFiles"]
          /\ UNCHANGED <<activeExecutions, executionQueue, promoted, ack,
                         outcome, events, started, unhandled>>
     ELSE /\ Commit(Reject(State, r, "FsError"))
          /\ UNCHANGED workspace
  /\ UNCHANGED <<maxConcurrent, submitted, sessionOf>>
  /\ UNCHANGED post
  /\ UNCHANGED aside

\* createExecutionEnvironment, remaining awaits: the test file, the
\* Playwright config, mcp.json and package.json are written; then runTest
\* calls installDependencies, which broadcasts and spawns `npm install`.
\* A failed write leaves the directory behind with part of its files.
writeFilesDone(r, ok) ==
  /\ pc[r] = "writeFiles"
  /\ IF ok
     THEN /\ workspace' = createExecutionEnvironment(workspace, sessionOf[r])
          /\ pc' = [pc EXCEPT ![r] = "installing"]
          /\ events' = broadcast(events,
                         Msg("dependency-installation-started", sessionOf[r]))
          /\ UNCHANGED <<activeExecutions, executionQueue, promoted, ack,
                         outcome, started, unhandled>>
     ELSE /\ Commit(Reject(State, r, "FsError"))
          /\ UNCHANGED workspace
  /\ UNCHANGED <<maxConcurrent, submitted, sessionOf>>
  /\ UNCHANGED post
  /\ UNCHANGED aside

\* The .then callback of runTest.  The callback declares
\* `const process = spawn('npx', args, { ..., env: { ...process.env, CI: 'true' } })`:
\* the initializer reads `process` inside the scope of that declaration,
\* before it is initialized, so evaluating the options object throws a
\* ReferenceError and spawn is never called.  The rejection of the .then
\* promise reaches .catch(reject).
runTestThen(st, r) == Reject(st, r, "ReferenceError")

\* A rejection of installDependencies: runTest's .then callback is skipped
\* and .catch(reject) rejects runTest with the same error.
installRejectedFallThrough(st, r, e) == runTestThen(st, r)
installRejected(st, r, e) == Reject(st, r, e)

\* installDependencies, 'error' handler: npm could not be started.
npmError(r) ==
  /\ pc[r] = "installing"
  /\ Commit(installRejected(State, r, "SpawnError"))
  /\ UNCHANGED <<maxConcurrent, submitted, sessionOf, workspace>>
  /\ UNCHANGED post
  /\ UNCHANGED aside

\* installDependencies, 'close' handler of the npm process.
npmClose(r, code) ==
  /\ pc[r] = "installing"
  /\ IF code = 0
     THEN Commit(runTestThen(
            [State EXCEPT !.events =
               broadcast(@, Msg("dependency-installation-completed", sessionOf[r]))],
            r))
     ELSE Commit(installRejected(State, r, "InstallFailed"))
  /\ UNCHANGED <<maxConcurrent, submitted, sessionOf, workspace>>
  /\ UNCHANGED post
  /\ UNCHANGED aside

\* ------------------------------------------- runner and post-processing
\* The handlers that runTest registers on the runner process, processResults
\* with processArtifacts and findFiles, cleanup, and the rest of
\* executeTestNow (lines 63-75).  Spec never gets here, because the spawn
\* expression throws (runTestThen); SpecRunner below applies this code to the
\* states in which a runner process exists.

\* Names are texts: sequences of tokens, the last one the extension.
Names == {<<"shot", ".png">>, <<"trace", ".zip">>}
Dirs == 1..MaxDirs
\* a file <outputDir>/<dir>/<name> written by the run of the session
Files(sessionId) == [session : {sessionId}, dir : Dirs, name : Names]
FileSets(sessionId) ==
  {F \in SUBSET Files(sessionId) : Cardinality(F) <= MaxFiles}

\* the sessionId as the frontend builds it: `session-${Date.now()}`
SessionText(sessionId) == <<"session", "-", sessionId>>

\* path.basename(file)
basename(f) == f.name

\* `${sessionId}-${path.basename(file)}`
DurableNameNoPrefix(sessionId, f) == basename(f)
DurableName(sessionId, f) == SessionText(sessionId) \o <<"-">> \o basename(f)

\* findFiles(dir, extensions): every file below dir, at any depth, whose
\* name ends with one of the extensions; a failing readdir yields no files.
findFiles(files, extensions, readdirFails) ==
  IF readdirFails THEN {}
  ELSE {f \in files : f.name[Len(f.name)] \in extensions}

\* path.basename(file).includes('trace')
IncludesTrace(f) == \E i \in 1..Len(f.name) : f.name[i] = "trace"

\* The three copy loops of processArtifacts, in their order.
Bucket(f) ==
  IF f.name[Len(f.name)] \in {".png", ".jpg"} THEN "screenshots"
  ELSE IF f.name[Len(f.name)] \in {".webm", ".mp4"} THEN "videos"
  ELSE "traces"
BucketRank(f) ==
  IF Bucket(f) = "screenshots" THEN 1 ELSE IF Bucket(f) = "videos" THEN 2 ELSE 3

Discovered(files, readdirFails) ==
  findFiles(files, {".png", ".jpg"}, readdirFails)
    \cup findFiles(files, {".webm", ".mp4"}, readdirFails)
    \cup {f \in findFiles(files, {".zip"}, readdirFails) : IncludesTrace(f)}

\* the files a run of the loops copies before a failing fs.copy ends them
CopiedBefore(found) ==
  {C \in SUBSET found :
     /\ C # found
     /\ \A f \in C, g \in found : BucketRank(g) < BucketRank(f) => g \in C}

\* one fs.copy(file, targetPath) and the manifest entry pushed after it
Copy(sessionId, f) ==
  [bucket |-> Bucket(f), filename |-> DurableName(sessionId, f), src |-> f]

\* processArtifacts: its try/catch logs an error and returns what it has.
processArtifacts(files, sessionId, fault, copied) ==
  LET found == Discovered(files, fault = "readdir")
  IN {Copy(sessionId, f) : f \in IF fault = "copy" THEN copied ELSE found}

\* the faults of the awaited calls of processResults
PostFaults == {"none", "ensureDir", "readJson", "readdir", "copy", "writeJson"}

\* The catch block of processResults: whatever is thrown inside its try is
\* turned into result.processingError, and the result is returned.
ThrownOutOfProcessResultsUncaught(fault) == fault \in {"ensureDir", "readJson", "writeJson"}
ThrownOutOfProcessResults(fault) == FALSE

\* processResults(result, sessionId, executionDir): the result it returns
processResults(res, files, sessionId, fault, hasJson, copied) ==
  IF fault = "ensureDir" THEN [res EXCEPT !.processingError = "FsError"]
  ELSE IF fault = "readJson" THEN [res EXCEPT !.processingError = "ParseError"]
  ELSE [res EXCEPT
          !.detailedResults = hasJson,
          !.artifacts = processArtifacts(files, sessionId, fault, copied),
          !.summary = TRUE,
          !.processingError = IF fault = "writeJson" THEN "FsError" ELSE ""]

\* the <sessionId>-result.json files after processResults
processResultsWrites(written, sessionId, fault) ==
  IF fault \in {"none", "readdir", "copy"} THEN written \cup {sessionId} ELSE written

\* the close handler of the runner: the result object and its status
StatusOf(code) == IF code = 0 THEN "passed" ELSE "failed"
CloseResult(code) == [NoResult EXCEPT !.exitCode = code, !.status = StatusOf(code)]

\* the code a failed spawn is closed with (the negative errno)
SpawnFailCode == 0 - 2

\* runTest, the 'data' handlers of the runner's stdout and stderr: a chunk is
\* broadcast as 'test-output' or 'test-error'.  The streams deliver data
\* while the process runs; 'close' is emitted after they have ended.
RunnerChunks(sessionId) ==
  {i \in 1..Len(events[sessionId]) :
     events[sessionId][i].type \in {"test-output", "test-error"}}

runnerDataAnytime(r, type) ==
  /\ child[r] \in {"running", "closed"}
  /\ Cardinality(RunnerChunks(sessionOf[r])) < MaxChunks
  /\ events' = broadcast(events, Msg(type, sessionOf[r]))
  /\ UNCHANGED <<maxConcurrent, activeExecutions, executionQueue, submitted,
                 sessionOf, pc, promoted, ack, outcome, workspace, started,
                 unhandled>>
  /\ UNCHANGED post
  /\ UNCHANGED aside
runnerData(r, type) ==
  /\ pc[r] = "running"
  /\ child[r] = "running"
  /\ Cardinality(RunnerChunks(sessionOf[r])) < MaxChunks
  /\ events' = broadcast(events, Msg(type, sessionOf[r]))
  /\ UNCHANGED <<maxConcurrent, activeExecutions, executionQueue, submitted,
                 sessionOf, pc, promoted, ack, outcome, workspace, started,
                 unhandled>>
  /\ UNCHANGED post
  /\ UNCHANGED aside

\* runTest, 'error' handler of the runner process: broadcast
\* 'test-execution-error', reject.
runnerError(r) ==
  /\ pc[r] = "running"
  /\ child[r] = "running"
  /\ child' = [child EXCEPT ![r] = "failed"]
  /\ Commit(Reject(
       [State EXCEPT !.events =
          broadcast(@, [Msg("test-execution-error", sessionOf[r])
                          EXCEPT !.error = "SpawnError"])],
       r, "SpawnError"))
  /\ UNCHANGED <<maxConcurrent, submitted, sessionOf, workspace>>
  /\ UNCHANGED <<result, outputDir, storage, resultFiles, results, fsFault>>
  /\ UNCHANGED aside

\* runTest, 'close' handler of the runner process.  Node emits 'close' once
\* the stdio streams of the child have ended, also for a child whose spawn
\* failed and that already emitted 'error'; resolve() after reject() has no
\* effect, the broadcast before it has.
runnerClose(r, code) ==
  /\ child[r] \in {"running", "failed"}
  /\ (child[r] = "failed") = (code = SpawnFailCode)
  /\ child' = [child EXCEPT ![r] = IF @ = "failed" THEN "failedClosed" ELSE "closed"]
  /\ events' = broadcast(events, [Msg("test-completed", sessionOf[r])
                                    EXCEPT !.status = StatusOf(code),
                                           !.exitCode = code])
  /\ IF child[r] = "running"
     THEN /\ result' = [result EXCEPT ![r] = CloseResult(code)]
          /\ pc' = [pc EXCEPT ![r] = "processing"]
     ELSE UNCHANGED <<result, pc>>
  /\ UNCHANGED <<maxConcurrent, activeExecutions, executionQueue, submitted,
                 sessionOf, promoted, ack, outcome, workspace, started,
                 unhandled, outputDir, storage, resultFiles, results, fsFault>>
  /\ UNCHANGED aside

\* processResults settles.
processResultsDone(r, fault, hasJson, copied) ==
  /\ pc[r] = "processing"
  /\ fault = "readJson" => hasJson
  /\ copied \in (IF fault = "copy"
                 THEN CopiedBefore(Discovered(outputDir[sessionOf[r]], FALSE))
                 ELSE {{}})
  /\ fsFault' = [fsFault EXCEPT ![r].post = fault]
  /\ IF ThrownOutOfProcessResults(fault)
     THEN /\ Commit(Reject(State, r, "FsError"))
          /\ UNCHANGED <<result, storage, resultFiles>>
     ELSE /\ result' = [result EXCEPT ![r] =
                          processResults(@, outputDir[sessionOf[r]], sessionOf[r],
                                         fault, hasJson, copied)]
          /\ storage' = storage \cup
               (IF fault \in {"ensureDir", "readJson"} THEN {}
                ELSE processArtifacts(outputDir[sessionOf[r]], sessionOf[r],
                                      fault, copied))
          /\ resultFiles' = processResultsWrites(resultFiles, sessionOf[r], fault)
          /\ pc' = [pc EXCEPT ![r] = "cleaning"]
          /\ UNCHANGED <<activeExecutions, executionQueue, promoted, ack,
                         outcome, events, started, unhandled>>
  /\ UNCHANGED <<maxConcurrent, submitted, sessionOf, workspace, child,
                 outputDir, results>>
  /\ UNCHANGED aside

\* cleanup(executionDir): fs.remove, its error logged and dropped.
cleanup(ws, sessionId, ok) ==
  IF ok THEN [ws EXCEPT ![sessionId] = "absent"] ELSE ws

\* executeTestNow after cleanup: delete the Map entry, processQueue, return
\* the processed result.  The route's .then broadcasts 'execution-completed'
\* for a run that executeTest started; the promise of a run that
\* processQueue started is dropped.
executeTestNowReturnKeepEntry(st, r) ==
  LET s2 == processQueue(st)
      s3 == [s2 EXCEPT !.pc = [@ EXCEPT ![r] = "resolved"],
                       !.outcome = [@ EXCEPT ![r] = result[r].status]]
  IN IF st.promoted[r] THEN s3
     ELSE [s3 EXCEPT
             !.ack = [@ EXCEPT ![r] = "result"],
             !.events = broadcast(@, [Msg("execution-completed", sessionOf[r])
                                        EXCEPT !.status = result[r].status,
                                               !.exitCode = result[r].exitCode])]
executeTestNowReturn(st, r) ==
  LET s1 == [st EXCEPT !.activeExecutions = MapDelete(@, sessionOf[r])]
      s2 == processQueue(s1)
      s3 == [s2 EXCEPT !.pc = [@ EXCEPT ![r] = "resolved"],
                       !.outcome = [@ EXCEPT ![r] = result[r].status]]
  IN IF st.promoted[r] THEN s3
     ELSE [s3 EXCEPT
             !.ack = [@ EXCEPT ![r] = "result"],
             !.events = broadcast(@, [Msg("execution-completed", sessionOf[r])
                                        EXCEPT !.status = result[r].status,
                                               !.exitCode = result[r].exitCode])]

\* cleanup catches the error of fs.remove and logs it
ThrownOutOfCleanupUncaught(ok) == ~ok
ThrownOutOfCleanup(ok) == FALSE

cleanupDone(r, ok) ==
  /\ pc[r] = "cleaning"
  /\ workspace' = cleanup(workspace, sessionOf[r], ok)
  /\ fsFault' = [fsFault EXCEPT ![r].remove = ~ok]
  /\ IF ThrownOutOfCleanup(ok)
     THEN Commit(Reject(State, r, "FsError"))
     ELSE Commit(executeTestNowReturn(State, r))
  /\ UNCHANGED <<maxConcurrent, submitted, sessionOf, child, result,
                 outputDir, storage, resultFiles, results>>
  /\ UNCHANGED aside

\* TestManager.saveResult and getResult.  Neither the route nor the executor
\* calls saveResult.
saveResult(store, resultData) == Append(store, resultData)
getResult(store, sessionId) ==
  {i \in 1..Len(store) : store[i].sessionId = sessionId}

\* ------------------------------------------------------ summary tally
\* A structured result document: suites hold specs and suites, a spec holds
\* tests, a test has an outcome.  A field that the document leaves out is a
\* field the record does not have.  'flaky' is what the runner reports for a
\* test that passed on a retry.
Outcomes == {"expected", "unexpected", "skipped", "flaky"}

TestLists(k) == {[i \in 1..k |-> [outcome |-> f[i]]] : f \in [1..k -> Outcomes]}

\* the lists of specs that hold k >= 1 tests: one spec, or two when k >= 2
SpecLists(k) ==
  {<<[title |-> "spec", tests |-> ts]>> : ts \in TestLists(k)}
  \cup (IF k < 2 THEN {}
        ELSE {<<[title |-> "spec", tests |-> SubSeq(ts, 1, 1)],
                [title |-> "spec", tests |-> SubSeq(ts, 2, k)]>> :
              ts \in TestLists(k)})

RECURSIVE Forests(_, _)
RECURSIVE Suite(_, _)
\* the suites that, with their descendants, count n suites and k tests.  A
\* suite without suites of its own has no `suites`; one that holds no test
\* itself has no `specs` when it is a leaf and a spec without `tests`
\* otherwise.
Suite(n, k) ==
  UNION {
    IF n = 1
    THEN (IF ks # k THEN {}
          ELSE IF ks = 0 THEN {[title |-> "suite"]}
          ELSE {[title |-> "suite", specs |-> sp] : sp \in SpecLists(ks)})
    ELSE {[title |-> "suite", specs |-> sp, suites |-> ch] :
            sp \in (IF ks = 0 THEN {<<[title |-> "spec"]>>} ELSE SpecLists(ks)),
            ch \in Forests(n - 1, k - ks)}
    : ks \in 0..k}
\* the lists of suites that count n suites and k tests in all
Forests(n, k) ==
  IF n = 0 THEN (IF k = 0 THEN {<<>>} ELSE {})
  ELSE UNION {{<<su>> \o rest : su \in Suite(n1, k1),
                                rest \in Forests(n - n1, k - k1)} :
              n1 \in 1..n, k1 \in 0..k}

\* countTestResults, the body of `for (const test of spec.tests)`
CountTest(sum, test) ==
  LET s1 == [sum EXCEPT !.testCount = @ + 1]
  IN IF test.outcome = "expected" THEN [s1 EXCEPT !.passedCount = @ + 1]
     ELSE IF test.outcome = "unexpected" THEN [s1 EXCEPT !.failedCount = @ + 1]
     ELSE IF test.outcome = "skipped" THEN [s1 EXCEPT !.skippedCount = @ + 1]
     ELSE s1

RECURSIVE CountTests(_, _)
CountTests(tests, sum) ==
  IF tests = <<>> THEN sum
  ELSE CountTests(Tail(tests), CountTest(sum, Head(tests)))

\* countTestResults, `for (const spec of suite.specs)`
RECURSIVE CountSpecs(_, _)
CountSpecs(specs, sum) ==
  IF specs = <<>> THEN sum
  ELSE CountSpecs(Tail(specs),
                  IF "tests" \in DOMAIN Head(specs)
                  THEN CountTests(Head(specs).tests, sum) ELSE sum)

RECURSIVE countTestResultsTopLevel(_, _)
countTestResultsTopLevel(suites, sum) ==
  IF suites = <<>> THEN sum
  ELSE LET suite == Head(suites)
       IN countTestResultsTopLevel(Tail(suites),
            IF "specs" \in DOMAIN suite THEN CountSpecs(suite.specs, sum) ELSE sum)
RECURSIVE countTestResults(_, _)
countTestResults(suites, sum) ==
  IF suites = <<>> THEN sum
  ELSE LET suite == Head(suites)
           s1 == IF "specs" \in DOMAIN suite
                 THEN CountSpecs(suite.specs, sum) ELSE sum
           s2 == IF "suites" \in DOMAIN suite
                 THEN countTestResults(suite.suites, s1) ELSE s1
       IN countTestResults(Tail(suites), s2)

\* generateExecutionSummary on a result whose detailedResults.suites is
\* the document
generateExecutionSummary ==
  /\ summary' = countTestResults(report, NoSummary)
  /\ UNCHANGED <<sched, post, report, readyState, handlers, connections,
                 subscriptions, connectionSubscriptions, sendOp, delivered,
                 sendTick, lastPost, reply, mcpConfig, playwrightConfig>>

\* ------------------------------------------------- run configuration
\* generatePlaywrightConfig(mcpConfig, sessionId).  An mcpConfig is the
\* record of the fields it has; the generated file is modelled by the values
\* its template writes for timeout, retries, workers, the capture policies
\* and the viewport.
ConfigFields ==
  {"timeout", "retries", "workers", "screenshot", "video", "trace", "viewport"}
Policies == {"on", "off"}

\* the right-hand sides of the template's `||`
Defaults ==
  [timeout |-> 30000, retries |-> 1, workers |-> 1,
   screenshot |-> "only-on-failure", video |-> "retain-on-failure",
   trace |-> "retain-on-failure", viewport |-> [width |-> 1920, height |-> 1080]]

\* `cfg.f || d` for a number: undefined and 0 are falsy
OrNumber(cfg, f, d) == IF f \in DOMAIN cfg /\ cfg[f] # 0 THEN cfg[f] ELSE d
\* `cfg.f || d` for a string: undefined and '' are falsy
OrText(cfg, f, d) == IF f \in DOMAIN cfg /\ cfg[f] # "" THEN cfg[f] ELSE d
\* `mcpConfig.viewport?.`
OptionalViewport(cfg) == IF "viewport" \in DOMAIN cfg THEN cfg.viewport ELSE <<>>

generatePlaywrightConfig(cfg) ==
  [timeout |-> OrNumber(cfg, "timeout", Defaults.timeout),
   retries |-> OrNumber(cfg, "retries", Defaults.retries),
   workers |-> OrNumber(cfg, "workers", Defaults.workers),
   screenshot |-> OrText(cfg, "screenshot", Defaults.screenshot),
   video |-> OrText(cfg, "video", Defaults.video),
   trace |-> OrText(cfg, "trace", Defaults.trace),
   viewport |->
     [width |-> OrNumber(OptionalViewport(cfg), "width", Defaults.viewport.width),
      height |-> OrNumber(OptionalViewport(cfg), "height", Defaults.viewport.height)]]

\* createExecutionEnvironment generates the configuration of the request's
\* mcpConfig and writes it to playwright.config.ts
writePlaywrightConfig ==
  /\ playwrightConfig' = generatePlaywrightConfig(mcpConfig)
  /\ UNCHANGED <<sched, post, report, summary, readyState, handlers,
                 connections, subscriptions, connectionSubscriptions, sendOp,
                 delivered, sendTick, lastPost, reply, mcpConfig>>

\* --------------------------------------------------- streaming service
\* StreamingService (streamingService.js).  A connection is registered under
\* the number of its socket; the Map of connections and each Set of
\* subscribers are the lists of their keys in insertion order, which is the
\* order forEach visits them in.  The Set of channels that the entry of a
\* connection holds (connection.subscriptions) is kept per id; it is empty
\* for an id without an entry.
Range(q) == {q[i] : i \in 1..Len(q)}
Without(q, x) == SelectSeq(q, LAMBDA y : y # x)
With(q, x) == IF x \in Range(q) THEN q ELSE Append(q, x)

Service ==
  [connections |-> connections, subscriptions |-> subscriptions,
   own |-> connectionSubscriptions]

removeConnectionKeepSubscriptions(svc, connectionId) ==
  [svc EXCEPT !.connections = Without(@, connectionId),
              !.own = [@ EXCEPT ![connectionId] = {}]]
removeConnection(svc, connectionId) ==
  IF connectionId \in Range(svc.connections)
  THEN [connections |-> Without(svc.connections, connectionId),
        subscriptions |-> [ch \in Channels |->
                             Without(svc.subscriptions[ch], connectionId)],
        own |-> [svc.own EXCEPT ![connectionId] = {}]]
  ELSE svc

subscribe(svc, connectionId, channel) ==
  [svc EXCEPT
     !.subscriptions[channel] = With(@, connectionId),
     !.own[connectionId] =
        IF connectionId \in Range(svc.connections) THEN @ \cup {channel} ELSE @]
unsubscribe(svc, connectionId, channel) ==
  [svc EXCEPT
     !.subscriptions[channel] = Without(@, connectionId),
     !.own[connectionId] =
        IF connectionId \in Range(svc.connections) THEN @ \ {channel} ELSE @]

\* A send in progress: the service, the sockets whose ws.send was called
\* (tried) and returned (got), and whether an error left the method.
Sending(svc) == [svc |-> svc, got |-> {}, tried |-> {}, raised |-> FALSE]

\* `if (connection && connection.connected && connection.ws.readyState === 1)
\*  { try { ws.send } catch { removeConnection } }`; throwing are the sockets
\* whose ws.send throws
TrySendUncaught(to, connectionId, throwing) ==
  IF connectionId \in Range(to.svc.connections) /\ readyState[connectionId] = "OPEN"
  THEN IF connectionId \in throwing
       THEN [to EXCEPT !.tried = @ \cup {connectionId}, !.raised = TRUE]
       ELSE [to EXCEPT !.tried = @ \cup {connectionId},
                       !.got = @ \cup {connectionId}]
  ELSE to
TrySend(to, connectionId, throwing) ==
  IF connectionId \in Range(to.svc.connections) /\ readyState[connectionId] = "OPEN"
  THEN IF connectionId \in throwing
       THEN [to EXCEPT !.tried = @ \cup {connectionId},
                       !.svc = removeConnection(@, connectionId)]
       ELSE [to EXCEPT !.tried = @ \cup {connectionId},
                       !.got = @ \cup {connectionId}]
  ELSE to

\* forEach over the keys; an error that leaves the callback ends the loop
RECURSIVE SendLoop(_, _, _)
SendLoop(ids, to, throwing) ==
  IF ids = <<>> \/ to.raised THEN to
  ELSE SendLoop(Tail(ids), TrySend(to, Head(ids), throwing), throwing)

streamingBroadcast(svc, throwing) ==
  SendLoop(svc.connections, Sending(svc), throwing)

sendToChannelEveryone(svc, channel, throwing) ==
  SendLoop(svc.connections, Sending(svc), throwing)
sendToChannel(svc, channel, throwing) ==
  IF svc.subscriptions[channel] = <<>> THEN Sending(svc)
  ELSE SendLoop(svc.subscriptions[channel], Sending(svc), throwing)

sendToConnection(svc, connectionId, throwing) ==
  TrySend(Sending(svc), connectionId, throwing)

\* the executor, the tally and the route, left alone by the streaming service
beside == <<sched, post, report, summary, lastPost, reply, mcpConfig,
            playwrightConfig>>

\* a socket is accepted
wssConnection(c) ==
  /\ readyState[c] = "none"
  /\ readyState' = [readyState EXCEPT ![c] = "OPEN"]
  /\ UNCHANGED <<handlers, connections, subscriptions, connectionSubscriptions,
                 sendOp, delivered, sendTick, beside>>

\* addConnection(ws, connectionId): connections.set puts a new entry, with
\* an empty Set of subscriptions, under the id (in the place of the entry the
\* id had, if any) and listens to 'close' and 'error' of the socket
addConnection(c) ==
  /\ readyState[c] = "OPEN"
  /\ connections' = With(connections, c)
  /\ connectionSubscriptions' = [connectionSubscriptions EXCEPT ![c] = {}]
  /\ handlers' = handlers \cup {c}
  /\ UNCHANGED <<readyState, subscriptions, sendOp, delivered, sendTick, beside>>

\* removeConnection(connectionId), called from outside the service
RemoveConnection(c) ==
  /\ connections' = removeConnection(Service, c).connections
  /\ subscriptions' = removeConnection(Service, c).subscriptions
  /\ connectionSubscriptions' = removeConnection(Service, c).own
  /\ UNCHANGED <<readyState, handlers, sendOp, delivered, sendTick, beside>>

Subscribe(c, ch) ==
  /\ subscriptions' = subscribe(Service, c, ch).subscriptions
  /\ connectionSubscriptions' = subscribe(Service, c, ch).own
  /\ UNCHANGED <<readyState, handlers, connections, sendOp, delivered,
                 sendTick, beside>>

Unsubscribe(c, ch) ==
  /\ subscriptions' = unsubscribe(Service, c, ch).subscriptions
  /\ connectionSubscriptions' = unsubscribe(Service, c, ch).own
  /\ UNCHANGED <<readyState, handlers, connections, sendOp, delivered,
                 sendTick, beside>>

\* the closing handshake of a socket begins: readyState is CLOSING, no
\* event is emitted yet
wsClosing(c) ==
  /\ readyState[c] = "OPEN"
  /\ readyState' = [readyState EXCEPT ![c] = "CLOSING"]
  /\ UNCHANGED <<handlers, connections, subscriptions, connectionSubscriptions,
                 sendOp, delivered, sendTick, beside>>

\* the listeners of addConnection
OnTransportEvent(c) ==
  LET svc == IF c \in handlers THEN removeConnection(Service, c) ELSE Service
  IN /\ connections' = svc.connections
     /\ subscriptions' = svc.subscriptions
     /\ connectionSubscriptions' = svc.own

\* 'error' on a socket; the socket is then closing ("ERRORED": CLOSING after
\* an 'error')
wsError(c) ==
  /\ readyState[c] \in {"OPEN", "CLOSING"}
  /\ readyState' = [readyState EXCEPT ![c] = "ERRORED"]
  /\ OnTransportEvent(c)
  /\ UNCHANGED <<handlers, sendOp, delivered, sendTick, beside>>

\* 'close' on a socket
wsClose(c) ==
  /\ readyState[c] \in {"OPEN", "CLOSING", "ERRORED"}
  /\ readyState' = [readyState EXCEPT ![c] = "CLOSED"]
  /\ OnTransportEvent(c)
  /\ UNCHANGED <<handlers, sendOp, delivered, sendTick, beside>>

\* a call of broadcast, sendToChannel or sendToConnection returns
Sent(kind, channel, connectionId, throwing, to) ==
  /\ connections' = to.svc.connections
  /\ subscriptions' = to.svc.subscriptions
  /\ connectionSubscriptions' = to.svc.own
  /\ delivered' = to.got
  /\ sendOp' = [kind |-> kind, channel |-> channel, connectionId |-> connectionId,
                throwing |-> throwing, tried |-> to.tried, raised |-> to.raised]
  /\ sendTick' = ~sendTick
  /\ UNCHANGED <<readyState, handlers, beside>>

\* the sockets a ws.send of the call can throw on
Open(ids) == {c \in Range(ids) : c \in Range(connections) /\ readyState[c] = "OPEN"}

Broadcast(throwing) ==
  Sent("broadcast", 0, 0, throwing, streamingBroadcast(Service, throwing))

SendToChannel(ch, throwing) ==
  Sent("channel", ch, 0, throwing, sendToChannel(Service, ch, throwing))

SendToConnection(c, throwing) ==
  Sent("connection", 0, c, throwing, sendToConnection(Service, c, throwing))

\* handleMessage for a 'subscribe', 'unsubscribe' or 'ping' message whose
\* connectionId and payload.channel are those the client wrote into it: the
\* subscription changes, then sendToConnection answers that connectionId.
MessageTypes == {"subscribe", "unsubscribe", "ping"}

handleMessage(type, connectionId, channel) ==
  LET svc == IF type = "subscribe" THEN subscribe(Service, connectionId, channel)
             ELSE IF type = "unsubscribe"
                  THEN unsubscribe(Service, connectionId, channel)
                  ELSE Service
  IN Sent("connection", 0, connectionId, {}, sendToConnection(svc, connectionId, {}))

\* --------------------------------------------------------- specification
\* Callers respect the contract of sessionId: every submission carries a
\* sessionId that no earlier submission used.
FreshSessionIds == {submitted + 1}

Next ==
  \/ \E sessionId \in FreshSessionIds : postExecuteTest(TRUE, sessionId)
  \/ \E r \in Requests, ok \in BOOLEAN : ensureDirDone(r, ok)
  \/ \E r \in Requests, ok \in BOOLEAN : writeFilesDone(r, ok)
  \/ \E r \in Requests : npmError(r)
  \/ \E r \in Requests, code \in ExitCodes : npmClose(r, code)

Spec == Init /\ [][Next]_vars

\* The steps of the run of r that no caller makes: a filesystem call of
\* createExecutionEnvironment settles, the npm process emits 'error' or 'close'.
RunStep(r) ==
  \/ \E ok \in BOOLEAN : ensureDirDone(r, ok)
  \/ \E ok \in BOOLEAN : writeFilesDone(r, ok)
  \/ npmError(r)
  \/ \E code \in ExitCodes : npmClose(r, code)

\* Every admitted execution eventually ends: each awaited call of a run
\* settles and each process of a run exits or errors.  Nothing is assumed of
\* the callers.
SpecLive == Init /\ [][Next]_vars /\ \A r \in Requests : WF_vars(RunStep(r))

\* Callers that do not respect the contract: executeTest accepts any
\* sessionId, also one that an earlier submission carried.
AnySessionIds == {s \in SessionIds : s <= submitted + 1 /\ s <= MaxSessions}

NextReuse ==
  \/ \E sessionId \in AnySessionIds :
       submitted < MaxReuseReq /\ postExecuteTest(TRUE, sessionId)
  \/ \E r \in Requests, ok \in BOOLEAN : ensureDirDone(r, ok)
  \/ \E r \in Requests, ok \in BOOLEAN : writeFilesDone(r, ok)
  \/ \E r \in Requests : npmError(r)
  \/ \E r \in Requests, code \in ExitCodes : npmClose(r, code)

SpecReuse == Init /\ [][NextReuse]_vars

\* The runner and what follows it.  The initial states are those in which
\* the first requests have been admitted, their workspaces built, their
\* installations completed and their runner processes spawned, each with the
\* files its run leaves in the output directory; one more request may wait in
\* the queue when the active set is full.  Two runs are runs of one test:
\* they leave files of the same names in their own output directories.
RunnerLog(sessionId) ==
  <<Msg("execution-started", sessionId),
    Msg("dependency-installation-started", sessionId),
    Msg("dependency-installation-completed", sessionId)>>
QueuedLog(sessionId) ==
  <<[Msg("execution-queued", sessionId) EXCEPT !.position = 1],
    [Msg("execution-completed", sessionId) EXCEPT !.status = "queued"]>>

InitRunner ==
  /\ InitReport
  /\ InitStream
  /\ InitConfig
  /\ lastPost = NoPost
  /\ maxConcurrent \in 1..MaxCapacity
  /\ \E n \in {1, 2}, waiting \in BOOLEAN :
       /\ n <= maxConcurrent
       /\ waiting => n = maxConcurrent
       /\ activeExecutions = [s \in 1..n |-> s]
       /\ executionQueue = IF waiting THEN <<n + 1>> ELSE <<>>
       /\ submitted = IF waiting THEN n + 1 ELSE n
       /\ sessionOf = [r \in Requests |-> IF r <= submitted THEN r ELSE 0]
       /\ pc = [r \in Requests |->
                  IF r <= n THEN "running"
                  ELSE IF r <= submitted THEN "queued" ELSE "unsubmitted"]
       /\ ack = [r \in Requests |->
                   IF r <= n THEN "pending"
                   ELSE IF r <= submitted THEN "queued" ELSE "none"]
       /\ outcome = [r \in Requests |-> IF r <= n THEN "pending" ELSE "none"]
       /\ reply = [r \in Requests |-> IF r <= submitted THEN "started" ELSE "none"]
       /\ workspace = [s \in SessionIds |-> IF s <= n THEN "ready" ELSE "absent"]
       /\ events = [s \in SessionIds |->
                      IF s <= n THEN RunnerLog(s)
                      ELSE IF s <= submitted THEN QueuedLog(s) ELSE <<>>]
       /\ started = [i \in 1..n |-> i]
       /\ child = [r \in Requests |-> IF r <= n THEN "running" ELSE "none"]
       /\ \E F \in FileSets(1) :
            outputDir = [s \in SessionIds |->
                           IF s <= n THEN {[f EXCEPT !.session = s] : f \in F}
                           ELSE {}]
  /\ promoted = [r \in Requests |-> FALSE]
  /\ unhandled = {}
  /\ result = [r \in Requests |-> NoResult]
  /\ storage = {}
  /\ resultFiles = {}
  /\ results = <<>>
  /\ fsFault = [r \in Requests |-> NoFault]

NextRunner ==
  \/ \E r \in Requests : runnerError(r)
  \/ \E r \in Requests, code \in ExitCodes \cup {SpawnFailCode} : runnerClose(r, code)
  \/ \E r \in {q \in Requests : pc[q] = "processing"},
        fault \in PostFaults, hasJson \in BOOLEAN :
       \E copied \in SUBSET outputDir[sessionOf[r]] :
         processResultsDone(r, fault, hasJson, copied)
  \/ \E r \in Requests, ok \in BOOLEAN : cleanupDone(r, ok)

SpecRunner == InitRunner /\ [][NextRunner]_vars

\* The events of whole executions: the runner with the chunks it writes,
\* from the states of InitRunner whose runs leave no files, together with
\* the steps that a request promoted out of the queue goes through.
InitOutput ==
  /\ InitRunner
  /\ outputDir = [s \in SessionIds |-> {}]

NextOutput ==
  \/ \E r \in Requests, type \in {"test-output", "test-error"} : runnerData(r, type)
  \/ \E r \in Requests : runnerError(r)
  \/ \E r \in Requests, code \in ExitCodes \cup {SpawnFailCode} : runnerClose(r, code)
  \/ \E r \in {q \in Requests : pc[q] = "processing"},
        fault \in PostFaults, hasJson \in BOOLEAN :
       processResultsDone(r, fault, hasJson, {})
  \/ \E r \in Requests, ok \in BOOLEAN : cleanupDone(r, ok)
  \/ \E r \in Requests, ok \in BOOLEAN : ensureDirDone(r, ok)
  \/ \E r \in Requests, ok \in BOOLEAN : writeFilesDone(r, ok)
  \/ \E r \in Requests : npmError(r)
  \/ \E r \in Requests, code \in ExitCodes : npmClose(r, code)

SpecOutput == InitOutput /\ [][NextOutput]_vars

\* Callers that also send malformed bodies: testData or sessionId missing.
NextRoute ==
  \/ \E testData \in BOOLEAN, sessionId \in FreshSessionIds \cup {NoSessionId} :
       submitted < MaxRouteReq /\ postExecuteTest(testData, sessionId)
  \/ \E r \in Requests, ok \in BOOLEAN : ensureDirDone(r, ok)
  \/ \E r \in Requests, ok \in BOOLEAN : writeFilesDone(r, ok)
  \/ \E r \in Requests : npmError(r)
  \/ \E r \in Requests, code \in ExitCodes : npmClose(r, code)

SpecRoute == Init /\ [][NextRoute]_vars

\* The server after start: no socket accepted, no request received, the
\* executor idle.
InitServer == Init /\ maxConcurrent = 1

\* The streaming service under a caller that registers the sockets it
\* accepts, each once.
NextStream ==
  \/ \E c \in Sockets : wssConnection(c)
  \/ \E c \in Sockets : c \notin handlers /\ addConnection(c)
  \/ \E c \in Sockets, ch \in Channels : Subscribe(c, ch)
  \/ \E c \in Sockets, ch \in Channels : Unsubscribe(c, ch)
  \/ \E c \in Sockets : wsClosing(c)
  \/ \E c \in Sockets : wsError(c)
  \/ \E c \in Sockets : wsClose(c)
  \/ \E throwing \in SUBSET Open(connections) : Broadcast(throwing)
  \/ \E ch \in Channels :
       \E throwing \in SUBSET Open(subscriptions[ch]) : SendToChannel(ch, throwing)
  \/ \E c \in Sockets :
       \E throwing \in SUBSET Open(<<c>>) : SendToConnection(c, throwing)

SpecStream == InitServer /\ [][NextStream]_vars

\* The registry under any caller: ids registered more than once, removed
\* by call, subscribed and unsubscribed whether registered or not.
NextIndex ==
  \/ \E c \in Sockets : wssConnection(c)
  \/ \E c \in Sockets : addConnection(c)
  \/ \E c \in Sockets : RemoveConnection(c)
  \/ \E c \in Sockets, ch \in Channels : Subscribe(c, ch)
  \/ \E c \in Sockets, ch \in Channels : Unsubscribe(c, ch)
  \/ \E c \in Sockets : wsError(c)
  \/ \E c \in Sockets : wsClose(c)

SpecIndex == InitServer /\ [][NextIndex]_vars

\* The server's own wiring of the WebSocket server: wss.on('connection')
\* attaches 'message', 'close' and 'error' listeners and sends a welcome
\* message on the socket itself.  It never calls addConnection, its 'error'
\* listener only logs, and its 'close' listener calls removeConnection with
\* the socket where the key is a connectionId, which finds nothing.
NextServer ==
  \/ \E c \in Sockets : wssConnection(c)
  \/ \E type \in MessageTypes, c \in Sockets, ch \in Channels :
       handleMessage(type, c, ch)
  \/ \E c \in Sockets : wsClosing(c)
  \/ \E c \in Sockets : wsError(c)
  \/ \E c \in Sockets : wsClose(c)
  \/ \E throwing \in SUBSET Open(connections) : Broadcast(throwing)

SpecServer == InitServer /\ [][NextServer]_vars

\* The summary tally on every structured result document within the bounds.
InitTally ==
  /\ InitExecutor
  /\ maxConcurrent = 1
  /\ \E n \in 0..MaxSuites, k \in 0..MaxTests : report \in Forests(n, k)
  /\ summary = NoSummary
  /\ InitStream
  /\ InitHttp
  /\ InitConfig

NextTally == generateExecutionSummary

SpecTally == InitTally /\ [][NextTally]_vars

\* The run configuration of every mcpConfig within the bounds: each field
\* present or absent, timeout and retries from 0, workers and the sides of
\* the viewport from 1.
InitPlaywright ==
  /\ InitExecutor
  /\ maxConcurrent = 1
  /\ InitReport
  /\ InitStream
  /\ InitHttp
  /\ playwrightConfig = NoConfig
  /\ \E present \in SUBSET ConfigFields :
       \E full \in [timeout : 0..MaxNumber, retries : 0..MaxNumber,
                    workers : 1..MaxNumber, screenshot : Policies,
                    video : Policies, trace : Policies,
                    viewport : [width : 1..MaxSide, height : 1..MaxSide]] :
         mcpConfig = [f \in present |-> full[f]]

NextPlaywright == writePlaywrightConfig

SpecPlaywright == InitPlaywright /\ [][NextPlaywright]_vars

TypeOK ==
  /\ maxConcurrent \in 1..MaxCapacity
  /\ DOMAIN activeExecutions \subseteq SessionIds
  /\ submitted \in 0..MaxReq
  /\ \A r \in Requests : pc[r] \in {"unsubmitted", "queued"} \cup Live \cup Ended


\* ------------------------------------------------------------ properties
InFlight == {r \in Requests : pc[r] \in Live}
WasQueued(r) == ack[r] = "queued"
Errors == {"FsError", "SpawnError", "InstallFailed", "ReferenceError"}
Results == {"passed", "failed"}
EventsIn(log, type) == {i \in 1..Len(log) : log[i].type = type}
EventsOf(sessionId, type) == EventsIn(events[sessionId], type)
\* r is submitted by this step
Submits(r) == pc[r] = "unsubmitted" /\ pc'[r] # "unsubmitted"
\* the run of r ends in this step
Ends(r) == pc[r] \in Live /\ pc'[r] \in Ended

\* C1: with pairwise-distinct sessionIds, in every reachable state the number
\* of executions admitted and not yet completed or failed is at most
\* maxConcurrentTests.
C1_CapacityBound == Cardinality(InFlight) <= maxConcurrent

C1_Witness ==
  /\ Cardinality(InFlight) = maxConcurrent
  /\ Len(executionQueue) > 0

\* C2: queued requests are admitted in submission order: no request
\* submitted after a queued request A is started before A, neither by
\* promotion out of order nor by immediate admission while A is waiting.
C2_FIFO ==
  /\ \A i, j \in 1..Len(started) :
       (i < j /\ WasQueued(started[j])) => started[i] < started[j]
  /\ \A a, b \in Requests :
       (pc[a] = "queued" /\ a < b) => pc[b] \in {"unsubmitted", "queued"}

C2_Witness ==
  \E i, j \in 1..Len(started) :
    i < j /\ WasQueued(started[i]) /\ WasQueued(started[j])

\* C3: a submission made while the active set is below capacity is admitted
\* in the same step (it is in the active set and 'execution-started' is
\* broadcast for it), and no 'execution-queued' is ever broadcast for it.
C3_ImmediateAdmission ==
  /\ [][\A r \in Requests :
          (Submits(r) /\ Cardinality(DOMAIN activeExecutions) < maxConcurrent)
          => /\ sessionOf'[r] \in DOMAIN activeExecutions'
             /\ activeExecutions'[sessionOf'[r]] = r
             /\ pc'[r] = "ensureDir"
             /\ ack'[r] = "pending"
             /\ events'[sessionOf'[r]] = <<Msg("execution-started", sessionOf'[r])>>
       ]_vars
  /\ [](\A r \in Requests :
          (pc[r] # "unsubmitted" /\ ~WasQueued(r))
          => EventsOf(sessionOf[r], "execution-queued") = {})

C3_Witness ==
  \E r \in Requests :
    /\ pc[r] \in Ended
    /\ ~WasQueued(r)
    /\ EventsOf(sessionOf[r], "execution-started") # {}

\* C4: a submission made while the active set is at capacity is appended to
\* the tail of the queue, broadcasts one 'execution-queued' whose position is
\* the queue length after the append, and returns a queued status; the active
\* set is unchanged, and until promotion the request has no workspace and no
\* 'execution-started'.
C4_Queued ==
  /\ [][\A r \in Requests :
          (Submits(r) /\ Cardinality(DOMAIN activeExecutions) >= maxConcurrent)
          => /\ executionQueue' = Append(executionQueue, r)
             /\ Cardinality(EventsIn(events'[sessionOf'[r]], "execution-queued")) = 1
             /\ events'[sessionOf'[r]][1] =
                  [Msg("execution-queued", sessionOf'[r]) EXCEPT
                     !.position = Len(executionQueue')]
             /\ executionQueue'[events'[sessionOf'[r]][1].position] = r
             /\ ack'[r] = "queued"
             /\ activeExecutions' = activeExecutions
             /\ workspace' = workspace
       ]_vars
  /\ [](\A r \in Requests :
          pc[r] = "queued"
          => /\ sessionOf[r] \notin DOMAIN activeExecutions
             /\ workspace[sessionOf[r]] = "absent"
             /\ EventsOf(sessionOf[r], "execution-started") = {})

C4_Witness ==
  \E r \in Requests :
    /\ pc[r] = "queued"
    /\ Len(executionQueue) = 2
    /\ executionQueue[2] = r
    /\ events[sessionOf[r]][1].position = 2

\* C5: whenever an admitted run ends, by any path, its entry leaves the
\* active set and, if the queue is non-empty, exactly the head of the queue
\* is admitted in the same step.
C5_SlotFreedAndHeadPromoted ==
  [][\A r \in Requests :
       Ends(r)
       => /\ sessionOf[r] \notin DOMAIN activeExecutions'
          /\ IF executionQueue # <<>>
             THEN /\ executionQueue' = Tail(executionQueue)
                  /\ pc'[Head(executionQueue)] = "ensureDir"
                  /\ DOMAIN activeExecutions' =
                       ((DOMAIN activeExecutions) \ {sessionOf[r]})
                         \cup {sessionOf[Head(executionQueue)]}
                  /\ \A q \in Requests \ {r, Head(executionQueue)} : pc'[q] = pc[q]
             ELSE /\ DOMAIN activeExecutions' =
                       (DOMAIN activeExecutions) \ {sessionOf[r]}
                  /\ \A q \in Requests \ {r} : pc'[q] = pc[q]
    ]_vars

C5_Witness ==
  \E r, q \in Requests :
    /\ pc[r] \in Ended
    /\ promoted[q]
    /\ Len(executionQueue) > 0

\* C6: every admitted execution ends with exactly one terminal outcome that
\* is delivered to the caller or to streaming subscribers: one
\* ExecutionResult or one explicit error, never delivered to nobody.
TerminalEvents(sessionId) ==
  {i \in 1..Len(events[sessionId]) :
     \/ events[sessionId][i].type \in {"execution-error", "test-execution-error"}
     \/ /\ events[sessionId][i].type = "execution-completed"
        /\ events[sessionId][i].status \in Results}

C6_OneOutcomeDelivered ==
  \A r \in Requests :
    pc[r] \in Ended
    => /\ Cardinality(TerminalEvents(sessionOf[r])) = 1
       /\ r \notin unhandled

\* C7: after an admitted execution has ended, by any path, its workspace
\* directory no longer exists.
C7_WorkspaceRemoved ==
  \A r \in Requests : pc[r] \in Ended => workspace[sessionOf[r]] = "absent"

\* C8: within one execution the workspace is fully created before dependency
\* installation or the runner is started, and it is not removed while a
\* process of the execution is running.
C8_WorkspaceBeforeProcess ==
  /\ [](\A r \in Requests :
          (pc[r] # "unsubmitted"
             /\ (pc[r] = "installing"
                   \/ EventsOf(sessionOf[r], "dependency-installation-started") # {}))
          => workspace[sessionOf[r]] = "ready")
  /\ [][\A r \in Requests :
          (pc[r] = "installing" /\ workspace[sessionOf[r]] = "ready")
          => workspace'[sessionOf[r]] = "ready"]_vars

C8_Witness ==
  \E r \in Requests : pc[r] = "installing" /\ workspace[sessionOf[r]] = "ready"

C10_RunnerSpawned ==
  \A r \in Requests :
    (pc[r] # "unsubmitted"
       /\ EventsOf(sessionOf[r], "dependency-installation-completed") # {})
    => outcome[r] \notin Errors

\* C12: the test-runner is never started unless the dependency installation
\* of the execution completed with exit code 0; when installation exits
\* non-zero or fails to start, the execution rejects with that error and no
\* 'test-output', 'test-error' or 'test-completed' is broadcast for the
\* session.
InstallErrors == {"InstallFailed", "SpawnError"}
\* runTest's .then callback ran for r: the spawn expression was evaluated
RunnerAttempted(r) == outcome[r] = "ReferenceError" \/ child[r] # "none"
RunnerEvents(sessionId) ==
  {i \in 1..Len(events[sessionId]) :
     events[sessionId][i].type \in {"test-output", "test-error", "test-completed"}}

C12_NoRunnerWithoutInstall ==
  /\ [](\A r \in Requests :
          RunnerAttempted(r)
          => EventsOf(sessionOf[r], "dependency-installation-completed") # {})
  /\ [][\A r \in Requests :
          (pc[r] = "installing" /\ pc'[r] # "installing"
             /\ EventsIn(events'[sessionOf[r]], "dependency-installation-completed") = {})
          => pc'[r] = "rejected" /\ outcome'[r] \in InstallErrors]_vars
  /\ [](\A r \in Requests :
          outcome[r] \in InstallErrors
          => RunnerEvents(sessionOf[r]) = {} /\ ~RunnerAttempted(r))

C12_Witness ==
  \E r, q \in Requests :
    /\ outcome[r] = "InstallFailed"
    /\ outcome[q] = "SpawnError"
    /\ RunnerEvents(sessionOf[r]) = {}

\* C13: whenever dependency installation fails for an admitted execution,
\* admitted immediately or promoted from the queue, an error event that
\* identifies the session is broadcast.
C13_InstallErrorBroadcast ==
  \A r \in Requests :
    outcome[r] \in InstallErrors
    => \E i \in 1..Len(events[sessionOf[r]]) :
         /\ events[sessionOf[r]][i].sessionId = sessionOf[r]
         /\ events[sessionOf[r]][i].error # ""

\* C18: at every instant no two in-flight executions use the same workspace
\* directory and each sessionId identifies at most one in-flight execution,
\* for every sequence of submissions executeTest accepts, reuse of the
\* sessionId of an active or queued execution included.
executionDir(r) == sessionOf[r]

C18_ExclusiveWorkspace ==
  \A r, q \in InFlight :
    r # q => executionDir(r) # executionDir(q) /\ sessionOf[r] # sessionOf[q]

\* C11: a failure to spawn the test-runner process is reported through the
\* dedicated error path, a 'test-execution-error' event and a rejected
\* operation, and never also produces a result or a 'test-completed' event
\* with status 'failed' for the session; the slot is freed.
SpawnFailed(r) == child[r] \in {"failed", "failedClosed"}

C11_SpawnFailureDistinct ==
  \A r \in Requests :
    SpawnFailed(r)
    => /\ EventsOf(sessionOf[r], "test-execution-error") # {}
       /\ pc[r] = "rejected" /\ outcome[r] = "SpawnError"
       /\ result[r] = NoResult
       /\ \A i \in EventsOf(sessionOf[r], "test-completed") :
            events[sessionOf[r]][i].status # "failed"
       /\ sessionOf[r] \notin DOMAIN activeExecutions

\* C14: an error raised during result post-processing never makes the
\* execution reject: it resolves with the result object, the workspace is
\* removed (unless the removal itself fails) and the slot is freed.
C14_PostProcessingNeverRejects ==
  /\ [][\A r \in Requests :
          pc[r] \in {"processing", "cleaning"} => pc'[r] # "rejected"]_vars
  /\ [](\A r \in Requests :
          (pc[r] = "resolved" /\ fsFault[r].post # "none")
          => /\ outcome[r] \in Results
             /\ outcome[r] = result[r].status
             /\ sessionOf[r] \notin DOMAIN activeExecutions
             /\ (~fsFault[r].remove => workspace[sessionOf[r]] = "absent"))

C14_Witness ==
  \E r \in Requests :
    /\ pc[r] = "resolved"
    /\ fsFault[r].post = "readJson"
    /\ result[r].processingError # ""
    /\ workspace[sessionOf[r]] = "absent"

\* C15: whenever artifact discovery or copying, or the parsing of the
\* structured result document, throws, the returned result carries a
\* processingError.
C15_ProcessingErrorAttached ==
  \A r \in Requests :
    (pc[r] \in {"cleaning", "resolved"}
       /\ fsFault[r].post \in {"readJson", "readdir", "copy"})
    => result[r].processingError # ""

\* C16: a result that carries processingError is still written to durable
\* result storage for its session (the case in which the write itself is
\* what failed aside).
C16_ErrorResultPersisted ==
  \A r \in Requests :
    (pc[r] \in {"cleaning", "resolved"}
       /\ result[r].processingError # ""
       /\ fsFault[r].post # "writeJson")
    => sessionOf[r] \in resultFiles

\* C17: for every execution that completes with a result, saveResult is
\* called exactly once, so that getResult(sessionId) returns the result.
C17_ResultSaved ==
  \A r \in Requests :
    pc[r] = "resolved" => Cardinality(getResult(results, sessionOf[r])) = 1

\* C19: two executions with distinct sessionIds that each produce a file of
\* the same original name store it under different durable filenames.
C19_DistinctSessionsDistinctNames ==
  \A c, d \in storage :
    (c.src.session # d.src.session /\ basename(c.src) = basename(d.src))
    => c.filename # d.filename

C19_Witness ==
  \E c, d \in storage :
    /\ c.src.session # d.src.session
    /\ basename(c.src) = basename(d.src)
    /\ c.bucket = d.bucket

\* C20: any two distinct discovered files are copied to distinct durable
\* filenames, so no artifact overwrites another.
C20_UniqueDurableNames ==
  \A c, d \in storage :
    c.src # d.src => ~(c.bucket = d.bucket /\ c.filename = d.filename)

\* what the document holds, read off it without counting as the code
\* counts: the outcomes of all tests of all specs of all suites, at any depth
RECURSIVE OutcomesIn(_)
SpecOutcomes(spec) ==
  IF "tests" \in DOMAIN spec
  THEN [i \in 1..Len(spec.tests) |-> spec.tests[i].outcome] ELSE <<>>
RECURSIVE Concat(_)
Concat(ss) == IF ss = <<>> THEN <<>> ELSE Head(ss) \o Concat(Tail(ss))
OutcomesIn(suites) ==
  Concat([i \in 1..Len(suites) |->
    (IF "specs" \in DOMAIN suites[i]
     THEN Concat([j \in 1..Len(suites[i].specs) |-> SpecOutcomes(suites[i].specs[j])])
     ELSE <<>>)
    \o (IF "suites" \in DOMAIN suites[i] THEN OutcomesIn(suites[i].suites) ELSE <<>>)])
Number(outs, which) == Cardinality({i \in 1..Len(outs) : outs[i] \in which})
RECURSIVE Depth(_)
Depth(suites) ==
  IF suites = <<>> THEN 0
  ELSE LET d == [i \in 1..Len(suites) |->
                   1 + (IF "suites" \in DOMAIN suites[i]
                        THEN Depth(suites[i].suites) ELSE 0)]
       IN CHOOSE m \in {d[i] : i \in 1..Len(suites)} :
            \A i \in 1..Len(suites) : d[i] <= m

\* C21: every sub-test is counted in exactly one bucket: passed iff its
\* outcome is 'expected', failed iff 'unexpected', skipped for every other
\* outcome; so testCount = passedCount + failedCount + skippedCount.
C21_OneBucketEach ==
  summary # NoSummary
  => /\ summary.passedCount = Number(OutcomesIn(report), {"expected"})
     /\ summary.failedCount = Number(OutcomesIn(report), {"unexpected"})
     /\ summary.skippedCount =
          Number(OutcomesIn(report), Outcomes \ {"expected", "unexpected"})
     /\ summary.testCount =
          summary.passedCount + summary.failedCount + summary.skippedCount

\* C22: the tally visits every test of a nested suite tree exactly once,
\* whatever the depth: testCount is the number of tests of all specs of all
\* suites at all levels, and the expected and unexpected ones are counted as
\* passed and failed.
C22_EveryTestOnce ==
  summary # NoSummary
  => /\ summary.testCount = Len(OutcomesIn(report))
     /\ summary.passedCount = Number(OutcomesIn(report), {"expected"})
     /\ summary.failedCount = Number(OutcomesIn(report), {"unexpected"})

\* a tree two levels deep with three tests, two expected and one unexpected,
\* tallied as 2 passed, 1 failed, 0 skipped, 3 tests
C22_Witness ==
  /\ Depth(report) = 2
  /\ Len(report) = 1
  /\ Number(OutcomesIn(report), {"expected"}) = 2
  /\ Number(OutcomesIn(report), {"unexpected"}) = 1
  /\ summary = [testCount |-> 3, passedCount |-> 2, failedCount |-> 1,
                skippedCount |-> 0]

\* C27: a request to the execute entry point that lacks test data or a
\* session id is answered with an error in the same turn and has no effect:
\* nothing is started or queued, the active set and the queue are unchanged
\* and no event is emitted.
Malformed(body) == ~body.testData \/ body.sessionId = NoSessionId

C27_MalformedRejected ==
  [][((lastPost' # lastPost \/ submitted' # submitted) /\ Malformed(lastPost'))
     => /\ lastPost'.status = 400
        /\ UNCHANGED <<sched, post, reply>>]_vars

C27_Witness ==
  /\ lastPost.status = 400
  /\ ~lastPost.testData
  /\ lastPost.sessionId # NoSessionId
  /\ activeExecutions # <<>>
  /\ submitted = 1

\* C28: the acknowledgment a caller receives for an accepted submission says
\* what happened to it: queued if and only if the request was placed in the
\* waiting queue, started if and only if it was admitted at once.
C28_AckStatesFate ==
  \A r \in Requests :
    pc[r] # "unsubmitted"
    => /\ (reply[r] = "queued") <=> WasQueued(r)
       /\ (reply[r] = "started") <=> ~WasQueued(r)

\* ---- streaming service
Registered == Range(connections)
\* the registered connections whose transport is open
LiveConnections == {c \in Registered : readyState[c] = "OPEN"}
\* this step is a call of broadcast, sendToChannel or sendToConnection
SendStep == sendTick' # sendTick
\* the connections the call is addressed to
Targets(op) ==
  IF op.kind = "broadcast" THEN Registered
  ELSE IF op.kind = "channel" THEN Range(subscriptions[op.channel])
  ELSE {op.connectionId}
Gone == {"ERRORED", "CLOSED"}

\* C23: delivery is scoped.  broadcast delivers to every registered
\* connection whose transport is open (and whose send returns); sendToChannel
\* delivers only to connections subscribed to the channel at that time;
\* sendToConnection delivers to at most the connection of that id.
C23_ScopedDelivery ==
  [][SendStep
     => /\ delivered' \subseteq LiveConnections \cap Targets(sendOp')
        /\ sendOp'.kind = "broadcast"
           => delivered' = LiveConnections \ sendOp'.throwing
        /\ sendOp'.kind = "channel"
           => delivered' \subseteq Range(subscriptions[sendOp'.channel])
        /\ sendOp'.kind = "connection"
           => delivered' \subseteq {sendOp'.connectionId}]_vars

\* a channel event reached a subscriber and passed by a live connection that
\* is not subscribed to the channel
C23_Witness ==
  /\ sendOp.kind = "channel"
  /\ delivered # {}
  /\ \E c \in LiveConnections :
       c \notin Range(subscriptions[sendOp.channel]) /\ c \notin delivered

\* C24: a send that fails or is impossible for one connection never keeps
\* the event from the other live connections it is addressed to, and never
\* raises to the caller.
C24_FailureIsolated ==
  [][SendStep
     => /\ ~sendOp'.raised
        /\ \A c \in (Targets(sendOp') \cap LiveConnections) \ sendOp'.throwing :
             c \in delivered']_vars

C24_Witness ==
  /\ sendOp.kind \in {"broadcast", "channel"}
  /\ sendOp.throwing # {}
  /\ delivered # {}

\* C25: a connection whose transport is not open and that is still in the
\* registry is removed from it by the next send that is addressed to it.
C25_LazyPrune ==
  [][SendStep
     => \A c \in Targets(sendOp') \cap Registered :
          readyState[c] # "OPEN" => c \notin Range(connections')]_vars

\* C26: when the transport of a registered connection emits close or error,
\* the connection leaves the registry and the subscribers of every channel,
\* and no later send calls ws.send on it.
C26_EagerPrune ==
  /\ [][\A c \in Registered :
          (readyState[c] \notin Gone /\ readyState'[c] \in Gone)
          => /\ c \notin Range(connections')
             /\ \A ch \in Channels : c \notin Range(subscriptions'[ch])]_vars
  /\ [][SendStep
        => sendOp'.tried \subseteq {c \in Registered : readyState[c] \notin Gone}]_vars

\* a connection was closed and pruned; a channel event then reached the
\* remaining subscriber only
C26_Witness ==
  \E c \in handlers, d \in Sockets :
    /\ d # c
    /\ readyState[c] = "CLOSED"
    /\ c \notin Registered
    /\ \A ch \in Channels : c \notin Range(subscriptions[ch])
    /\ sendOp.kind = "channel"
    /\ delivered = {d}

\* C29: every WebSocket connection the server accepts is in the registry
\* of the streaming service, so that an event that is broadcast reaches
\* every client connected at that time.
C29_AcceptedRegistered ==
  /\ [](\A c \in Sockets : readyState[c] = "OPEN" => c \in Registered)
  /\ [][(SendStep /\ sendOp'.kind = "broadcast")
        => delivered' = {c \in Sockets : readyState[c] = "OPEN"}]_vars

\* C30: a failure while removing the workspace directory is never
\* propagated: the execution still resolves with its result, the slot is
\* freed and the head of the queue is promoted; teardown of a directory that
\* is already removed changes nothing.
C30_TeardownFailureContained ==
  /\ [][\A r \in Requests :
          (pc[r] = "cleaning" /\ pc'[r] # "cleaning")
          => /\ pc'[r] = "resolved"
             /\ outcome'[r] = result[r].status
             /\ sessionOf[r] \notin DOMAIN activeExecutions'
             /\ executionQueue # <<>>
                => /\ executionQueue' = Tail(executionQueue)
                   /\ promoted'[Head(executionQueue)]]_vars
  /\ [](\A s \in SessionIds, ok \in BOOLEAN :
          LET removed == cleanup(workspace, s, TRUE)
          IN /\ removed[s] = "absent"
             /\ cleanup(removed, s, ok) = removed)

C30_Witness ==
  \E r \in Requests, q \in Requests :
    /\ pc[r] = "resolved"
    /\ fsFault[r].remove
    /\ workspace[sessionOf[r]] = "ready"
    /\ outcome[r] \in Results
    /\ WasQueued(q) /\ promoted[q]

ActiveRuns == {activeExecutions[s] : s \in DOMAIN activeExecutions}
Times(q, x) == Cardinality({i \in 1..Len(q) : q[i] = x})

\* C32: each submitted request is consumed exactly once: it is started at
\* most once, it occupies at most one position in the waiting queue, it is
\* never in the waiting queue and the active set at the same time, and once
\* its run has ended it is never started again.
C32_ConsumedOnce ==
  /\ [](\A r \in Requests :
          /\ Times(started, r) <= 1
          /\ Times(executionQueue, r) <= 1
          /\ r \in Range(executionQueue)
             => r \notin ActiveRuns /\ r \notin Range(started) /\ pc[r] = "queued")
  /\ [][\A r \in Requests :
          pc[r] \in Ended
          => /\ pc'[r] = pc[r]
             /\ Times(started', r) = Times(started, r)
             /\ r \notin Range(executionQueue')
             /\ r \notin ActiveRuns']_vars

\* every request was started, two of them out of the queue, and a run that
\* came out of the queue has ended
C32_Witness ==
  /\ Len(started) = MaxReq
  /\ \A r \in Requests : Times(started, r) = 1
  /\ \E q, r \in Requests :
       /\ q # r
       /\ WasQueued(q) /\ WasQueued(r)
       /\ pc[q] \in Ended
       /\ pc[r] \in Live

\* C33: an 'execution-completed' event for a session is broadcast only
\* after that session's run has finished, after its 'execution-started'
\* event, and carries the run's result; it is never broadcast for a request
\* that is still waiting in the queue.
C33_CompletedAfterRun ==
  \A r \in Requests :
    pc[r] # "unsubmitted"
    => \A i \in EventsOf(sessionOf[r], "execution-completed") :
         /\ pc[r] \in Ended
         /\ \E j \in EventsOf(sessionOf[r], "execution-started") : j < i
         /\ events[sessionOf[r]][i].status \in Results

\* every event of the types `later` in the log follows one of type `earlier`
Follows(log, earlier, later) ==
  \A j \in 1..Len(log) :
    log[j].type \in later
    => \E i \in 1..(j - 1) : log[i].type = earlier
\* no event of the types `earlier` comes after one of the type `later`
Precedes(log, earlier, later) ==
  \A i, j \in 1..Len(log) :
    (log[i].type \in earlier /\ log[j].type = later) => i < j

\* C34: for each session the lifecycle events are emitted in this order:
\* 'execution-queued' (if any) before 'execution-started',
\* 'execution-started' before 'dependency-installation-started',
\* 'dependency-installation-completed' before any 'test-output' or
\* 'test-error', and every 'test-output'/'test-error' before
\* 'test-completed'; at most one 'execution-started' and at most one
\* 'test-completed' per execution.
C34_LifecycleOrder ==
  \A s \in SessionIds :
    /\ Precedes(events[s], {"execution-queued"}, "execution-started")
    /\ Follows(events[s], "execution-started", {"dependency-installation-started"})
    /\ Follows(events[s], "dependency-installation-completed",
               {"test-output", "test-error"})
    /\ Precedes(events[s], {"test-output", "test-error"}, "test-completed")
    /\ Cardinality(EventsIn(events[s], "execution-started")) <= 1
    /\ Cardinality(EventsIn(events[s], "test-completed")) <= 1

\* one session went through queue, start, installation; another through
\* installation, output and 'test-completed'
C34_Witness ==
  \E s, t \in SessionIds :
    /\ EventsIn(events[s], "execution-queued") # {}
    /\ EventsIn(events[s], "dependency-installation-completed") # {}
    /\ RunnerChunks(t) # {}
    /\ EventsIn(events[t], "test-completed") # {}

\* C35: the orchestration layer never removes an active execution or ends
\* its process on its own: an entry leaves the active set only when its own
\* run completes or fails, so a run whose process never exits keeps its slot,
\* and with the active set full of such runs no queued request is promoted.
C35_NoPreemption ==
  /\ [][\A r \in Requests :
          (r \in ActiveRuns /\ r \notin ActiveRuns') => Ends(r)]_vars
  /\ [][\A r \in Requests :
          (pc[r] \in Live /\ pc'[r] # pc[r])
          => /\ submitted' = submitted
             /\ \A q \in Requests \ {r} : ~Ends(q)]_vars
  /\ [][\A q \in Requests :
          (pc[q] = "queued" /\ pc'[q] # "queued")
          => \E r \in ActiveRuns : Ends(r)]_vars

\* both slots are held by runs whose npm process has not exited, and the
\* two requests submitted since are still waiting
C35_Witness ==
  /\ maxConcurrent = 2
  /\ \A r \in ActiveRuns : pc[r] = "installing"
  /\ Cardinality(ActiveRuns) = 2
  /\ Len(executionQueue) = 2
  /\ \A q \in Range(executionQueue) : pc[q] = "queued" /\ ~promoted[q]

\* C36: the generated run configuration carries every RunConfig value that
\* is present unchanged (timeout, retries, worker count, capture policies,
\* viewport) and substitutes a default only for a field that is absent; in
\* particular a RunConfig with retries = 0 yields retries 0.
C36_ConfigCarried ==
  playwrightConfig # NoConfig
  => \A f \in ConfigFields :
       playwrightConfig[f] =
         IF f \in DOMAIN mcpConfig THEN mcpConfig[f] ELSE Defaults[f]

\* C37: every failure of an execution started by queue promotion is
\* handled: the rejection of executeTestNow called from processQueue is
\* observed by some handler (reported to the caller or as an error event)
\* and never remains an unhandled promise rejection.
C37_PromotedFailureHandled ==
  \A r \in Requests :
    (promoted[r] /\ outcome[r] \in Errors)
    => /\ r \notin unhandled
       /\ \/ ack[r] = "rejected"
          \/ EventsOf(sessionOf[r], "execution-error") # {}

\* C38: the scheduler is work-conserving: in every reachable state between
\* atomic steps, for submissions with distinct sessionIds, if the waiting
\* queue is non-empty then the active set is at full capacity; a free slot
\* and a waiting request never coexist.
C38_WorkConserving ==
  executionQueue # <<>>
  => /\ Cardinality(DOMAIN activeExecutions) = maxConcurrent
     /\ Cardinality(ActiveRuns) = maxConcurrent

\* a slot was freed and refilled from the queue while another request waits
C38_Witness ==
  /\ maxConcurrent = 2
  /\ executionQueue # <<>>
  /\ \E q \in ActiveRuns : promoted[q]
  /\ \E r \in Requests : pc[r] \in Ended

\* C39: after any sequence of addConnection, removeConnection, subscribe,
\* unsubscribe and transport close/error events, the two subscription
\* indexes agree and reference only registered connections: an id is in a
\* channel's subscriber set if and only if it is a registered connection
\* whose own subscription set contains the channel.
C39_IndexesAgree ==
  \A c \in Sockets, ch \in Channels :
    c \in Range(subscriptions[ch])
    <=> (c \in Registered /\ ch \in connectionSubscriptions[c])

\* C40: the capacity bound also holds when callers reuse a sessionId: for
\* every sequence of submissions, including one whose sessionId equals that
\* of a currently active execution, the number of test runs in progress
\* never exceeds maxConcurrentTests, and the completion of one run never
\* removes the active-set entry of another run that is still in progress.
C40_CapacityUnderReuse ==
  /\ [](Cardinality(InFlight) <= maxConcurrent)
  /\ [][\A r, q \in Requests :
          (r # q /\ Ends(r) /\ q \in ActiveRuns /\ pc'[q] \in Live)
          => /\ sessionOf[q] \in DOMAIN activeExecutions'
             /\ activeExecutions'[sessionOf[q]] = q]_vars

====
